---- MODULE Spec2Model ----
(***************************************************************************)
(* Model of hcv-secrets-scanner: the SecretsScanner class (hcvss/hcvss.py) *)
(* and the typer CLI in front of it (hcvss/cli.py).                        *)
(*                                                                         *)
(* One run is one program: a CLI subcommand, or the library sequence       *)
(* "scanner = SecretsScanner(); scanner.<method>()" the tests use.  The    *)
(* run advances one statement group at a time (pc).  The process           *)
(* environment, the local secrets file and the answers of the two HTTP     *)
(* endpoints are the inputs.                                               *)
(*                                                                         *)
(* External tools are modelled by what they do: curl is run without        *)
(* --fail, so it exits 0 on every HTTP status and hands the body over;     *)
(* jq (>= 1.6, default filter ".") pretty-prints valid JSON, prints        *)
(* nothing for empty input, and exits non-zero on text that is not JSON.   *)
(***************************************************************************)
EXTENDS Integers, Sequences, FiniteSets, TLC

(* ------------------------------ bounds --------------------------------- *)

\* most records in the `secrets` array of a local file
MaxSecrets == 2

\* most programs run one after the other
MaxRuns == 2

(* ------------------------------ strings -------------------------------- *)

RECURSIVE Join(_, _)
\* sep.join(seq)
Join(sep, seq) ==
    IF seq = <<>> THEN ""
    ELSE IF Len(seq) = 1 THEN seq[1]
    ELSE seq[1] \o sep \o Join(sep, Tail(seq))

\* sub in s
Contains(s, sub) ==
    \E k \in 1..(Len(s) - Len(sub) + 1) : SubSeq(s, k, k + Len(sub) - 1) = sub

(* ------------------------------ JSON values ---------------------------- *)

JNull == [t |-> "null"]
JStr(s) == [t |-> "string", s |-> s]
JArr(a) == [t |-> "array", a |-> a]
JObj(f) == [t |-> "object", f |-> f]
NoFields == [k \in {} |-> JNull]

\* d.get(key, default) on a parsed JSON value: only a dict has .get
DictGet(d, key, default) ==
    IF d.t # "object" THEN [ok |-> FALSE, exc |-> "AttributeError", v |-> JNull]
    ELSE [ok |-> TRUE, exc |-> "",
          v |-> IF key \in DOMAIN d.f THEN d.f[key] ELSE default]

\* len(x) on a parsed JSON value: -1 stands for TypeError (None, numbers)
PyLen(x) ==
    CASE x.t = "string" -> Len(x.s)
      [] x.t = "array" -> Len(x.a)
      [] x.t = "object" -> Cardinality(DOMAIN x.f)
      [] OTHER -> -1

(* ------------------------------ texts ---------------------------------- *)
\* A text is what a file or an HTTP body holds.  A JSON text is a document
\* in a layout: "compact" as a server sends it, "pretty" as jq prints it.

InvalidText == [kind |-> "invalid"]
EmptyText == [kind |-> "empty"]
JsonText(doc, layout) == [kind |-> "json", doc |-> doc, layout |-> layout]
Layouts == {"compact", "pretty"}

\* json.load / json.loads
JsonLoads(text) ==
    IF text.kind = "json" THEN [ok |-> TRUE, exc |-> "", doc |-> text.doc]
    ELSE [ok |-> FALSE, exc |-> "JSONDecodeError", doc |-> JNull]

(* ------------------------------ the environment ------------------------ *)

required_vars == <<"HCP_ORGANIZATION_ID", "HCP_PROJECT_ID", "HCP_APP_NAME">>
credential_vars == {"HCP_CLIENT_ID", "HCP_CLIENT_SECRET", "VAULT_TOKEN"}
RequiredSet == {required_vars[k] : k \in 1..Len(required_vars)}

\* the value a variable has when it is set and not empty
EnvValue(v) ==
    CASE v = "HCP_ORGANIZATION_ID" -> "test-org"
      [] v = "HCP_PROJECT_ID" -> "test-project"
      [] v = "HCP_APP_NAME" -> "test-app"
      [] v = "HCP_CLIENT_ID" -> "test-id"
      [] v = "HCP_CLIENT_SECRET" -> "test-secret"
      [] v = "VAULT_TOKEN" -> "env-token"

\* os.environ: each required variable is absent, empty or set; the
\* credentials and the Vault token are all set or all absent
Environments ==
    UNION { { e \in [R \cup C -> {"", "test-org", "test-project", "test-app",
                                  "test-id", "test-secret", "env-token"}] :
                \A v \in R \cup C :
                    \/ e[v] = EnvValue(v)
                    \/ v \in R /\ e[v] = "" } :
            R \in SUBSET RequiredSet, C \in {{}, credential_vars} }

\* os.environ.get(var), "None" when the variable is absent
environ_get(e, var) == IF var \in DOMAIN e THEN e[var] ELSE "None"

\* bool(os.environ.get(var))
EnvTruthy(e, var) == var \in DOMAIN e /\ e[var] # ""

(* ------------------------------ SecretsScanner.__init__ ---------------- *)

secret_length == 20

missing_vars_first(e) ==
    LET all == SelectSeq(required_vars, LAMBDA v : ~EnvTruthy(e, v))
    IN  IF all = <<>> THEN <<>> ELSE <<all[1]>>

missing_vars_none(e) == <<>>

\* [var for var in required_vars if not os.environ.get(var)]
missing_vars(e) == SelectSeq(required_vars, LAMBDA v : ~EnvTruthy(e, v))

\* os.environ[var]: KeyError when absent; the constructor reads every
\* required variable this way only after missing_vars came out empty
base_url(e) ==
    "https://api.cloud.hashicorp.com/secrets/2023-11-28"
        \o "/organizations/" \o environ_get(e, "HCP_ORGANIZATION_ID")
        \o "/projects/" \o environ_get(e, "HCP_PROJECT_ID")
        \o "/apps/" \o environ_get(e, "HCP_APP_NAME")

NoScanner == [secret_length |-> 0, base_url |-> ""]

\* SecretsScanner(): the object, or the exception the constructor raises
SecretsScanner(e) ==
    IF missing_vars(e) # <<>>
    THEN [ok |-> FALSE, exc |-> "EnvironmentError",
          msg |-> "Missing required environment variables: "
                    \o Join(", ", missing_vars(e)),
          obj |-> NoScanner]
    ELSE IF \E v \in RequiredSet : v \notin DOMAIN e
    THEN [ok |-> FALSE, exc |-> "KeyError", msg |-> "", obj |-> NoScanner]
    ELSE [ok |-> TRUE, exc |-> "", msg |-> "",
          obj |-> [secret_length |-> secret_length, base_url |-> base_url(e)]]

(* ------------------------------ local files ---------------------------- *)

FILE == "test_secrets.json"

\* secret values of length 5, 20, 21 and 26
Values == {"short", "exactly_twenty_chars", "twenty_one_characters",
           "this_is_long_enough_secret"}

SecretRecord(v) == JObj("static_version" :> JObj("value" :> JStr(v)))

\* records as the secrets manager writes them, and records that lack
\* `static_version` or its `value`
Records ==
    {SecretRecord(v) : v \in Values}
        \cup {JObj(NoFields), JObj("static_version" :> JObj(NoFields))}

SeqsUpTo(S, n) == UNION { [1..k -> S] : k \in 0..n }

SecretsDocument(recs) == JObj("secrets" :> JArr(recs))

\* documents of the SecretsDocument shape, with or without the `secrets` key
ShapedDocs ==
    {JObj(NoFields)} \cup {SecretsDocument(r) : r \in SeqsUpTo(Records, MaxSecrets)}

\* valid JSON of another shape
OtherDocs ==
    { JArr(<<>>),
      JObj("secrets" :> JNull),
      SecretsDocument(<<JObj("static_version" :> JNull)>>),
      SecretsDocument(<<JObj("static_version" :> JObj("value" :> JNull))>>) }

MissingFile == [kind |-> "missing"]
UnreadableFile == [kind |-> "unreadable"]

\* what test_secrets.json can be: absent, not readable (permissions, bytes
\* that do not decode), or a text
Files ==
    {MissingFile, UnreadableFile, InvalidText, EmptyText}
        \cup {JsonText(d, l) : d \in ShapedDocs \cup OtherDocs, l \in Layouts}

(* ------------------------------ _get_secret_values --------------------- *)

NoValueFound == JStr("No value found")

SecretValue_nodefault(secret) ==
    LET sv == DictGet(secret, "static_version", JNull)
    IN  IF ~sv.ok THEN sv ELSE DictGet(sv.v, "value", NoValueFound)

\* secret.get('static_version', {}).get('value', 'No value found')
SecretValue(secret) ==
    LET sv == DictGet(secret, "static_version", JObj(NoFields))
    IN  IF ~sv.ok THEN sv ELSE DictGet(sv.v, "value", NoValueFound)

\* the list comprehension over data.get('secrets', [])
ExtractValues(data) ==
    LET secrets == DictGet(data, "secrets", JArr(<<>>))
    IN  IF ~secrets.ok THEN [ok |-> FALSE, exc |-> secrets.exc, values |-> <<>>]
        ELSE IF secrets.v.t # "array"
        THEN [ok |-> FALSE, exc |-> "TypeError", values |-> <<>>]
        ELSE IF \E k \in 1..Len(secrets.v.a) : ~SecretValue(secrets.v.a[k]).ok
        THEN [ok |-> FALSE, exc |-> "AttributeError", values |-> <<>>]
        ELSE [ok |-> TRUE, exc |-> "",
              values |-> [k \in 1..Len(secrets.v.a) |-> SecretValue(secrets.v.a[k]).v]]

ReadFile_raising(f, path) ==
    CASE f.kind = "missing" ->
            [ok |-> FALSE, raised |-> "FileNotFoundError", printed |-> <<>>, data |-> JNull]
      [] f.kind = "unreadable" ->
            [ok |-> FALSE, raised |-> "OSError", printed |-> <<>>, data |-> JNull]
      [] f.kind \in {"invalid", "empty"} ->
            [ok |-> FALSE, raised |-> "JSONDecodeError", printed |-> <<>>, data |-> JNull]
      [] OTHER ->
            [ok |-> TRUE, raised |-> "", printed |-> <<>>, data |-> JsonLoads(f).doc]

\* the try block of _get_secret_values: open, json.load and the three
\* handlers, each of which prints and returns []
ReadFile(f, path) ==
    CASE f.kind = "missing" ->
            [ok |-> FALSE, raised |-> "",
             printed |-> <<"Error: The file " \o path \o " does not exist.">>,
             data |-> JNull]
      [] f.kind = "unreadable" ->
            [ok |-> FALSE, raised |-> "",
             printed |-> <<"An unexpected error occurred: [Errno 13] Permission denied">>,
             data |-> JNull]
      [] ~JsonLoads(f).ok ->
            [ok |-> FALSE, raised |-> "",
             printed |-> <<"Error: The file " \o path \o " does not contain valid JSON.">>,
             data |-> JNull]
      [] OTHER ->
            [ok |-> TRUE, raised |-> "", printed |-> <<>>, data |-> JsonLoads(f).doc]

\* _get_secret_values(file_path): the values, or the exception that escapes
get_secret_values(f, path) ==
    LET r == ReadFile(f, path)
    IN  IF r.raised # ""
        THEN [exc |-> r.raised, printed |-> r.printed, values |-> <<>>]
        ELSE IF ~r.ok
        THEN [exc |-> "", printed |-> r.printed, values |-> <<>>]
        ELSE [exc |-> ExtractValues(r.data).exc, printed |-> <<>>,
              values |-> ExtractValues(r.data).values]

(* ------------------------------ check_secrets -------------------------- *)

TooShort_strict(secret, limit) == PyLen(secret) < limit

\* len(secret) <= self.secret_length
TooShort(secret, limit) == PyLen(secret) <= limit

\* f"Secret {secret} is too short: {len(secret)} characters"
Message(secret) ==
    "Secret " \o secret.s \o " is too short: "
        \o ToString(PyLen(secret)) \o " characters"

(* ------------------------------ HTTP and the tools --------------------- *)

\* An endpoint's answer: status 0 when no HTTP answer came back (host
\* unreachable, connection refused), else the status and the body.
Unreachable == [status |-> 0, body |-> EmptyText]
Response(status, body) == [status |-> status, body |-> body]
Success(status) == 200 <= status /\ status < 300

TokenResponses ==
    { Unreachable,
      Response(200, JsonText(JObj("access_token" :> JStr("test-token")), "compact")),
      Response(200, JsonText(JObj("access_token" :> JStr("")), "compact")),
      Response(200, JsonText(JObj("token_type" :> JStr("Bearer")), "compact")),
      Response(200, JsonText(JArr(<<>>), "compact")),
      Response(200, EmptyText),
      Response(200, InvalidText),
      Response(401, JsonText(JObj("error" :> JStr("invalid_client")), "compact")),
      Response(500, InvalidText) }

SecretsResponses ==
    { Unreachable,
      Response(200, JsonText(SecretsDocument(<<>>), "compact")),
      Response(200, JsonText(SecretsDocument(<<>>), "pretty")),
      Response(200, JsonText(SecretsDocument(
                        <<SecretRecord("short"),
                          SecretRecord("this_is_long_enough_secret")>>), "compact")),
      Response(200, EmptyText),
      Response(200, InvalidText),
      Response(401, JsonText(JObj("message" :> JStr("unauthorized")), "compact")),
      Response(500, InvalidText) }

\* check=True: the exception subprocess.run raises when curl exits non-zero
CurlFailure == [status |-> "raised", exc |-> "CalledProcessError", detail |-> "curl"]

\* subprocess.run(['curl', '--location', url, ...]): no --fail among the
\* arguments, so curl exits 0 whenever an HTTP answer arrived
Curl(resp) ==
    IF resp.status = 0
    THEN [rc |-> 6, stdout |-> EmptyText, stderr |-> "curl: (6) Could not resolve host"]
    ELSE [rc |-> 0, stdout |-> resp.body, stderr |-> ""]

JqIdentity_raw(text) ==
    IF text.kind = "invalid"
    THEN [rc |-> 2, stdout |-> EmptyText, stderr |-> "jq: error: parse error"]
    ELSE [rc |-> 0, stdout |-> text, stderr |-> ""]

\* subprocess.run(['jq'], input=text): the identity filter, pretty-printing
JqIdentity(text) ==
    CASE text.kind = "invalid" ->
            [rc |-> 2, stdout |-> EmptyText, stderr |-> "jq: error: parse error"]
      [] text.kind = "empty" ->
            [rc |-> 0, stdout |-> EmptyText, stderr |-> ""]
      [] OTHER ->
            [rc |-> 0, stdout |-> JsonText(text.doc, "pretty"), stderr |-> ""]

\* one value printed by jq -r: a string raw, null as the word null
JqRaw(v) ==
    CASE v.t = "string" -> v.s \o "\n"
      [] v.t = "null" -> "null\n"

\* subprocess.run(['jq', '-r', '.access_token'], input=text)
JqAccessToken(text) ==
    CASE text.kind = "invalid" ->
            [rc |-> 2, stdout |-> "", stderr |-> "jq: error: parse error"]
      [] text.kind = "empty" ->
            [rc |-> 0, stdout |-> "", stderr |-> ""]
      [] text.doc.t = "object" ->
            [rc |-> 0, stdout |-> JqRaw(DictGet(text.doc, "access_token", JNull).v),
             stderr |-> ""]
      [] text.doc.t = "null" ->
            [rc |-> 0, stdout |-> "null\n", stderr |-> ""]
      [] OTHER ->
            [rc |-> 5, stdout |-> "",
             stderr |-> "jq: error: Cannot index " \o text.doc.t \o " with \"access_token\""]

IsSpace(c) == c \in {" ", "\n", "\t", "\r"}

RECURSIVE LStrip(_)
LStrip(s) ==
    IF Len(s) > 0 /\ IsSpace(SubSeq(s, 1, 1)) THEN LStrip(SubSeq(s, 2, Len(s))) ELSE s

RECURSIVE RStrip(_)
RStrip(s) ==
    IF Len(s) > 0 /\ IsSpace(SubSeq(s, Len(s), Len(s)))
    THEN RStrip(SubSeq(s, 1, Len(s) - 1)) ELSE s

\* str.strip()
Strip(s) == LStrip(RStrip(s))

(* ------------------------------ state ---------------------------------- *)

VARIABLES
    env,            \* os.environ
    file,           \* the content of test_secrets.json
    runs,           \* programs finished so far
    cmd,            \* the program of this run
    pc,             \* where the run stands
    scanner,        \* the SecretsScanner object once constructed
    tok_stdout,     \* _generate_hcp_api_token: result.stdout of curl
    token,          \* _generate_hcp_api_token: the token it returned
    result_stdout,  \* fetch_hcp_secrets: result.stdout of curl
    json_output,    \* fetch_hcp_secrets: stdout of jq
    secrets,        \* check_secrets: the values _get_secret_values returned
    idx,            \* check_secrets: position of the for loop
    messages,       \* check_secrets: the list it builds
    stdout,         \* what the run printed so far
    outcome,        \* how the run's call ended
    document,       \* the value fetch_hcp_secrets returned
    exit_code,      \* the CLI's exit code, -1 before it exits
    net,            \* requests and writes the run made so far
    file_before,    \* the content of test_secrets.json when the run began
    io,             \* reads of the environment and of the file in this run
    total,          \* fetch invocations and token requests over all runs
    kv              \* the HCVSSClient of this run and the request it sent

vars == <<env, file, runs, cmd, pc, scanner, tok_stdout, token, result_stdout,
          json_output, secrets, idx, messages, stdout, outcome, document,
          exit_code, net, file_before, io, total, kv>>

\* command lines that carry the global --version flag
VersionPrograms == {"cli_version", "cli_version_check", "cli_version_fetch"}

Programs == {"fetch", "check", "cli_fetch", "cli_check", "kv"} \cup VersionPrograms
CliPrograms == {"cli_fetch", "cli_check"} \cup VersionPrograms

\* the subcommand on the command line, "none" when there is none
Subcommand(c) ==
    CASE c \in {"cli_check", "cli_version_check"} -> "check"
      [] c \in {"cli_fetch", "cli_version_fetch"} -> "fetch"
      [] OTHER -> "none"

NoText == [kind |-> "none"]
NoDocument == [t |-> "none"]
Running == [status |-> "running", exc |-> "", detail |-> ""]
Returned == [status |-> "returned", exc |-> "", detail |-> ""]
Raised(exc, detail) == [status |-> "raised", exc |-> exc, detail |-> detail]
NoNet == [token_requests |-> 0, token_status |-> 0,
          secrets_requests |-> 0, secrets_status |-> 0, file_writes |-> 0]
NoIo == [env_reads |-> 0, file_reads |-> 0]
NoTotal == [fetches |-> 0, token_requests |-> 0]
NoKv == [arg |-> "", vault_token |-> "", op |-> "", method |-> "", url |-> "",
         header |-> "", requests |-> 0, body |-> NoText, result |-> NoDocument]
\* typer.Exit() raised by a callback: the command line ends with code 0
Exited == [status |-> "exited", exc |-> "Exit", detail |-> ""]

\* the locals of a run before it starts
Fresh ==
    /\ scanner = NoScanner
    /\ tok_stdout = NoText
    /\ token = ""
    /\ result_stdout = NoText
    /\ json_output = NoText
    /\ secrets = <<>>
    /\ idx = 0
    /\ messages = <<>>
    /\ stdout = <<>>
    /\ outcome = Running
    /\ document = NoDocument
    /\ exit_code = -1
    /\ net = NoNet
    /\ io = NoIo
    /\ kv = NoKv

Init ==
    /\ env \in Environments
    /\ file \in Files
    /\ file_before = file
    /\ total = NoTotal
    /\ runs = 0
    /\ cmd = "none"
    /\ pc = "idle"
    /\ Fresh

\* an unhandled exception leaves a typer command with exit code 1, a normal
\* return with 0
ExitCode(out) == IF out.status = "raised" THEN 1 ELSE 0

\* the run's call ends with `out`
Finish(out) ==
    /\ outcome' = out
    /\ pc' = "done"
    /\ exit_code' = IF cmd \in CliPrograms THEN ExitCode(out) ELSE -1

(* ------------------------------ actions -------------------------------- *)

Start(c) ==
    /\ pc = "idle"
    /\ runs < MaxRuns
    /\ cmd' = c
    /\ pc' = CASE c \in CliPrograms -> "callback"
               [] c = "kv" -> "kv_init"
               [] OTHER -> "construct"
    /\ UNCHANGED <<env, file, runs, scanner, tok_stdout, token, result_stdout,
                   json_output, secrets, idx, messages, stdout, outcome,
                   document, exit_code, net>>
    /\ UNCHANGED <<file_before, io, total, kv>>

\* hcvss/__init__.py: __app_name__ and __version__
app_name == "hcvss"
version == "0.1.0"

version_callback_noexit(value) ==
    IF value
    THEN [echo |-> <<app_name \o " v" \o version>>, exit |-> FALSE]
    ELSE [echo |-> <<>>, exit |-> FALSE]

\* _version_callback(value): echo the version and raise typer.Exit()
version_callback(value) ==
    IF value
    THEN [echo |-> <<app_name \o " v" \o version>>, exit |-> TRUE]
    ELSE [echo |-> <<>>, exit |-> FALSE]

\* the app callback `main`: its eager --version option is handled before
\* any subcommand is looked at; without a subcommand typer reports a usage
\* error (exit code 2)
MainCallback ==
    /\ pc = "callback"
    /\ LET r == version_callback(cmd \in VersionPrograms)
       IN  /\ stdout' = stdout \o r.echo
           /\ IF r.exit
              THEN Finish(Exited)
              ELSE IF Subcommand(cmd) = "none"
              THEN /\ outcome' = Raised("UsageError", "Missing command.")
                   /\ pc' = "done"
                   /\ exit_code' = 2
              ELSE /\ pc' = "construct"
                   /\ UNCHANGED <<outcome, exit_code>>
    /\ UNCHANGED <<env, file, runs, cmd, scanner, tok_stdout, token,
                   result_stdout, json_output, secrets, idx, messages,
                   document, net, file_before, io, total, kv>>

\* hcvss = SecretsScanner()
Construct ==
    /\ pc = "construct"
    /\ LET r == SecretsScanner(env)
       IN  IF ~r.ok
           THEN /\ Finish(Raised(r.exc, r.msg))
                /\ UNCHANGED <<scanner, total>>
           ELSE /\ scanner' = r.obj
                /\ pc' = CASE cmd = "check" \/ Subcommand(cmd) = "check" -> "get_values"
                           [] cmd = "fetch" -> "token_curl"
                           [] Subcommand(cmd) = "fetch" -> "cli_fetch_call"
                /\ total' = IF cmd = "fetch"
                            THEN [total EXCEPT !.fetches = @ + 1] ELSE total
                /\ UNCHANGED <<outcome, exit_code>>
    /\ io' = [io EXCEPT !.env_reads = @ + 1]
    /\ UNCHANGED <<env, file, runs, cmd, tok_stdout, token, result_stdout,
                   json_output, secrets, idx, messages, stdout, document, net>>
    /\ UNCHANGED <<file_before, kv>>

\* def fetch_hcp_secrets(self): no parameter besides self
fetch_hcp_secrets_params == 0

\* hcvss.fetch_hcp_secrets(filename): one argument
cli_fetch_args == 1

\* cli.fetch: the call of fetch_hcp_secrets
CliFetchCall ==
    /\ pc = "cli_fetch_call"
    /\ IF cli_fetch_args # fetch_hcp_secrets_params
       THEN /\ Finish(Raised("TypeError",
                "fetch_hcp_secrets() takes 1 positional argument but 2 were given"))
            /\ UNCHANGED total
       ELSE /\ pc' = "token_curl"
            /\ total' = [total EXCEPT !.fetches = @ + 1]
            /\ UNCHANGED <<outcome, exit_code>>
    /\ UNCHANGED <<env, file, runs, cmd, scanner, tok_stdout, token,
                   result_stdout, json_output, secrets, idx, messages, stdout,
                   document, net>>
    /\ UNCHANGED <<file_before, io, kv>>

token_requests_retry(n, rc) == IF rc # 0 THEN n + 2 ELSE n + 1

\* one subprocess.run of curl per call of _generate_hcp_api_token, whatever
\* its exit code: the requests sent once `n` were sent before
token_requests_after(n, rc) == n + 1

\* _generate_hcp_api_token: the curl POST to the identity endpoint
TokenCurl ==
    /\ pc = "token_curl"
    /\ \E resp \in TokenResponses :
        LET r == Curl(resp)
        IN  /\ net' = [net EXCEPT
                        !.token_requests = token_requests_after(@, r.rc),
                        !.token_status = resp.status]
            /\ total' = [total EXCEPT
                        !.token_requests = token_requests_after(@, r.rc)]
            /\ IF r.rc # 0
               THEN /\ stdout' = Append(stdout, "Command failed with error: " \o r.stderr)
                    /\ Finish(CurlFailure)
                    /\ UNCHANGED tok_stdout
               ELSE /\ tok_stdout' = r.stdout
                    /\ pc' = "token_jq"
                    /\ UNCHANGED <<stdout, outcome, exit_code>>
    /\ UNCHANGED <<env, file, runs, cmd, scanner, token, result_stdout,
                   json_output, secrets, idx, messages, document>>
    /\ UNCHANGED <<file_before, io, kv>>

\* _generate_hcp_api_token: jq -r .access_token, strip, the emptiness test
TokenJq ==
    /\ pc = "token_jq"
    /\ LET r == JqAccessToken(tok_stdout)
       IN  IF r.rc # 0
           THEN /\ stdout' = Append(stdout, "Command failed with error: " \o r.stderr)
                /\ Finish(Raised("CalledProcessError", "jq"))
                /\ UNCHANGED token
           ELSE IF Strip(r.stdout) = ""
           THEN /\ stdout' = Append(stdout,
                    "An unexpected error occurred: No access token found in the response.")
                /\ Finish(Raised("ValueError", "No access token found in the response."))
                /\ UNCHANGED token
           ELSE /\ token' = Strip(r.stdout)
                /\ pc' = "secrets_curl"
                /\ UNCHANGED <<stdout, outcome, exit_code>>
    /\ UNCHANGED <<env, file, runs, cmd, scanner, tok_stdout, result_stdout,
                   json_output, secrets, idx, messages, document, net>>
    /\ UNCHANGED <<file_before, io, total, kv>>

\* fetch_hcp_secrets: the curl GET of <base_url>/secrets:open
SecretsCurl ==
    /\ pc = "secrets_curl"
    /\ \E resp \in SecretsResponses :
        LET r == Curl(resp)
        IN  /\ net' = [net EXCEPT !.secrets_requests = @ + 1,
                                  !.secrets_status = resp.status]
            /\ IF r.rc # 0
               THEN /\ stdout' = Append(stdout, "Command failed with error: " \o r.stderr)
                    /\ Finish(CurlFailure)
                    /\ UNCHANGED result_stdout
               ELSE /\ result_stdout' = r.stdout
                    /\ pc' = "secrets_jq"
                    /\ UNCHANGED <<stdout, outcome, exit_code>>
    /\ UNCHANGED <<env, file, runs, cmd, scanner, tok_stdout, token,
                   json_output, secrets, idx, messages, document>>
    /\ UNCHANGED <<file_before, io, total, kv>>

\* fetch_hcp_secrets: jq formats the body
SecretsJq ==
    /\ pc = "secrets_jq"
    /\ LET r == JqIdentity(result_stdout)
       IN  IF r.rc # 0
           THEN /\ stdout' = Append(stdout, "Command failed with error: " \o r.stderr)
                /\ Finish(Raised("CalledProcessError", "jq"))
                /\ UNCHANGED json_output
           ELSE /\ json_output' = r.stdout
                /\ pc' = "write"
                /\ UNCHANGED <<stdout, outcome, exit_code>>
    /\ UNCHANGED <<env, file, runs, cmd, scanner, tok_stdout, token,
                   result_stdout, secrets, idx, messages, document, net>>
    /\ UNCHANGED <<file_before, io, total, kv>>

\* fetch_hcp_secrets: open('test_secrets.json', 'w'), f.write, print
FetchWrite ==
    /\ pc = "write"
    /\ file' = json_output
    /\ net' = [net EXCEPT !.file_writes = @ + 1]
    /\ stdout' = Append(stdout, json_output)
    /\ pc' = "loads"
    /\ UNCHANGED <<env, runs, cmd, scanner, tok_stdout, token, result_stdout,
                   json_output, secrets, idx, messages, outcome, document,
                   exit_code>>
    /\ UNCHANGED <<file_before, io, total, kv>>

\* fetch_hcp_secrets: return json.loads(json_output)
FetchLoads ==
    /\ pc = "loads"
    /\ LET r == JsonLoads(json_output)
       IN  IF ~r.ok
           THEN /\ stdout' = Append(stdout, "Failed to decode JSON: Expecting value")
                /\ Finish(Raised("JSONDecodeError", "Expecting value"))
                /\ UNCHANGED document
           ELSE /\ document' = r.doc
                /\ Finish(Returned)
                /\ UNCHANGED stdout
    /\ UNCHANGED <<env, file, runs, cmd, scanner, tok_stdout, token,
                   result_stdout, json_output, secrets, idx, messages, net>>
    /\ UNCHANGED <<file_before, io, total, kv>>

\* check_secrets: secrets = self._get_secret_values(file_path); messages = []
GetSecretValues ==
    /\ pc = "get_values"
    /\ LET r == get_secret_values(file, FILE)
       IN  /\ stdout' = stdout \o r.printed
           /\ io' = [io EXCEPT !.file_reads = @ + 1]
           /\ IF r.exc # ""
              THEN /\ Finish(Raised(r.exc, ""))
                   /\ UNCHANGED <<secrets, idx>>
              ELSE /\ secrets' = r.values
                   /\ idx' = 1
                   /\ pc' = "loop"
                   /\ UNCHANGED <<outcome, exit_code>>
    /\ UNCHANGED <<env, file, runs, cmd, scanner, tok_stdout, token,
                   result_stdout, json_output, messages, document, net>>
    /\ UNCHANGED <<file_before, total, kv>>

CheckLoop_print_all ==
    /\ pc = "loop"
    /\ idx <= Len(secrets)
    /\ LET secret == secrets[idx]
       IN  IF PyLen(secret) < 0
           THEN /\ Finish(Raised("TypeError", "object has no len()"))
                /\ UNCHANGED <<idx, messages, stdout>>
           ELSE /\ idx' = idx + 1
                /\ stdout' = Append(stdout, Message(secret))
                /\ IF TooShort(secret, scanner.secret_length)
                   THEN messages' = Append(messages, Message(secret))
                   ELSE UNCHANGED messages
                /\ UNCHANGED <<pc, outcome, exit_code>>
    /\ UNCHANGED <<env, file, runs, cmd, scanner, tok_stdout, token,
                   result_stdout, json_output, secrets, document, net>>
    /\ UNCHANGED <<file_before, io, total, kv>>

\* check_secrets: one iteration of the for loop
CheckLoop ==
    /\ pc = "loop"
    /\ idx <= Len(secrets)
    /\ LET secret == secrets[idx]
       IN  IF PyLen(secret) < 0
           THEN /\ Finish(Raised("TypeError", "object has no len()"))
                /\ UNCHANGED <<idx, messages, stdout>>
           ELSE /\ idx' = idx + 1
                /\ IF TooShort(secret, scanner.secret_length)
                   THEN /\ messages' = Append(messages, Message(secret))
                        /\ stdout' = Append(stdout, Message(secret))
                   ELSE UNCHANGED <<messages, stdout>>
                /\ UNCHANGED <<pc, outcome, exit_code>>
    /\ UNCHANGED <<env, file, runs, cmd, scanner, tok_stdout, token,
                   result_stdout, json_output, secrets, document, net>>
    /\ UNCHANGED <<file_before, io, total, kv>>

\* check_secrets: return messages
CheckReturn ==
    /\ pc = "loop"
    /\ idx > Len(secrets)
    /\ Finish(Returned)
    /\ UNCHANGED <<env, file, runs, cmd, scanner, tok_stdout, token,
                   result_stdout, json_output, secrets, idx, messages, stdout,
                   document, net>>
    /\ UNCHANGED <<file_before, io, total, kv>>

(* ------------------------------ HCVSSClient (hcvss/api.py) ------------- *)

\* the arguments the tests pass
MOUNT == "secret"
SECRET_PATH == "my-secret"
VaultTokenArgs == {"", "test-token"}

\* the value of a method that ends without a return statement
PyNone == [t |-> "None"]

KvResponses ==
    { Unreachable,
      Response(200, JsonText(JObj("data" :> JObj("foo" :> JStr("bar"))), "compact")),
      Response(404, JsonText(JObj("errors" :> JArr(<<>>)), "compact")),
      Response(200, InvalidText) }

\* self.vault_token = vault_token or os.environ.get("VAULT_TOKEN")
client_token(arg, e) == IF arg # "" THEN arg ELSE environ_get(e, "VAULT_TOKEN")

KvOperations ==
    { "configure_kv_engine", "read_kv_engine_config", "read_secret_version",
      "create_secret", "patch_secret", "read_secret_subkeys", "delete_secret",
      "delete_secret_versions", "undelete_secret_versions",
      "destroy_secret_versions", "list_secrets", "read_secret_metadata",
      "update_secret_metadata", "patch_secret_metadata",
      "delete_secret_metadata_and_all_versions" }

\* the requests function each operation calls
KvMethod(op) ==
    CASE op \in {"read_kv_engine_config", "read_secret_version",
                 "read_secret_subkeys", "list_secrets", "read_secret_metadata"} -> "get"
      [] op \in {"patch_secret", "patch_secret_metadata"} -> "patch"
      [] op \in {"delete_secret", "delete_secret_metadata_and_all_versions"} -> "delete"
      [] OTHER -> "post"

\* url = f"{self.secrets_scanner.base_url}/{secret_mount_path}/..."
KvUrl(op, base, mount, path) ==
    CASE op \in {"configure_kv_engine", "read_kv_engine_config"} ->
            base \o "/" \o mount \o "/config"
      [] op = "read_secret_version" ->
            base \o "/" \o mount \o "/data/" \o path \o "?version=" \o ToString(0)
      [] op \in {"create_secret", "patch_secret", "delete_secret"} ->
            base \o "/" \o mount \o "/data/" \o path
      [] op = "read_secret_subkeys" -> base \o "/" \o mount \o "/subkeys/" \o path
      [] op = "delete_secret_versions" -> base \o "/" \o mount \o "/delete/" \o path
      [] op = "undelete_secret_versions" -> base \o "/" \o mount \o "/undelete/" \o path
      [] op = "destroy_secret_versions" -> base \o "/" \o mount \o "/destroy/" \o path
      [] OTHER -> base \o "/" \o mount \o "/metadata/" \o path

\* whether the operation ends with `return response.json()`
KvReturnsJson(op) == op # "configure_kv_engine"

\* HCVSSClient(vault_token): the token, the headers, then SecretsScanner()
KvInit ==
    /\ pc = "kv_init"
    /\ \E arg \in VaultTokenArgs :
        LET r == SecretsScanner(env)
        IN  /\ kv' = [kv EXCEPT !.arg = arg,
                                !.vault_token = client_token(arg, env),
                                !.header = client_token(arg, env)]
            /\ IF ~r.ok
               THEN /\ Finish(Raised(r.exc, r.msg))
                    /\ UNCHANGED scanner
               ELSE /\ scanner' = r.obj
                    /\ pc' = "kv_call"
                    /\ UNCHANGED <<outcome, exit_code>>
    /\ io' = [io EXCEPT !.env_reads = @ + 1]
    /\ UNCHANGED <<env, file, runs, cmd, tok_stdout, token, result_stdout,
                   json_output, secrets, idx, messages, stdout, document, net,
                   file_before, total>>

\* one key-value operation: build the url, call requests, return
KvCall ==
    /\ pc = "kv_call"
    /\ \E op \in KvOperations, resp \in KvResponses :
        /\ kv' = [kv EXCEPT
                    !.op = op,
                    !.method = KvMethod(op),
                    !.url = KvUrl(op, scanner.base_url, MOUNT, SECRET_PATH),
                    !.requests = @ + 1,
                    !.body = IF resp.status = 0 THEN NoText ELSE resp.body,
                    !.result = IF resp.status # 0 /\ KvReturnsJson(op)
                                    /\ JsonLoads(resp.body).ok
                               THEN JsonLoads(resp.body).doc
                               ELSE IF resp.status # 0 /\ ~KvReturnsJson(op)
                               THEN PyNone ELSE NoDocument]
        /\ IF resp.status = 0
           THEN Finish(Raised("ConnectionError", ""))
           ELSE IF KvReturnsJson(op) /\ ~JsonLoads(resp.body).ok
           THEN Finish(Raised("JSONDecodeError", "Expecting value"))
           ELSE Finish(Returned)
    /\ UNCHANGED <<env, file, runs, cmd, scanner, tok_stdout, token,
                   result_stdout, json_output, secrets, idx, messages, stdout,
                   document, net, file_before, io, total>>

\* the program is over; the next one starts from fresh locals
NextRun ==
    /\ pc = "done"
    /\ runs' = runs + 1
    /\ cmd' = "none"
    /\ pc' = "idle"
    /\ scanner' = NoScanner
    /\ tok_stdout' = NoText
    /\ token' = ""
    /\ result_stdout' = NoText
    /\ json_output' = NoText
    /\ secrets' = <<>>
    /\ idx' = 0
    /\ messages' = <<>>
    /\ stdout' = <<>>
    /\ outcome' = Running
    /\ document' = NoDocument
    /\ exit_code' = -1
    /\ net' = NoNet
    /\ io' = NoIo
    /\ kv' = NoKv
    /\ file_before' = file
    /\ UNCHANGED <<env, file>>
    /\ UNCHANGED <<total>>

Next ==
    \/ \E c \in Programs : Start(c)
    \/ MainCallback
    \/ Construct
    \/ CliFetchCall
    \/ TokenCurl
    \/ TokenJq
    \/ SecretsCurl
    \/ SecretsJq
    \/ FetchWrite
    \/ FetchLoads
    \/ GetSecretValues
    \/ CheckLoop
    \/ CheckReturn
    \/ KvInit
    \/ KvCall
    \/ NextRun

Spec == Init /\ [][Next]_vars

(* ------------------------------ properties ----------------------------- *)

CheckPrograms == {"check", "cli_check"}

\* some required identifier is absent or empty in the environment
SomeMissing == \E v \in RequiredSet : v \notin DOMAIN env \/ env[v] = ""

\* the file is a SecretsDocument whose records all carry a string value
FileHasStringValues ==
    /\ file.kind = "json"
    /\ file.doc.t = "object"
    /\ "secrets" \in DOMAIN file.doc.f
    /\ file.doc.f["secrets"].t = "array"
    /\ \A k \in 1..Len(file.doc.f["secrets"].a) :
        LET rec == file.doc.f["secrets"].a[k]
        IN  /\ rec.t = "object"
            /\ "static_version" \in DOMAIN rec.f
            /\ rec.f["static_version"].t = "object"
            /\ "value" \in DOMAIN rec.f["static_version"].f
            /\ rec.f["static_version"].f["value"].t = "string"

\* the value strings of the file's records, in file order
FileValues ==
    [k \in 1..Len(file.doc.f["secrets"].a) |->
        file.doc.f["secrets"].a[k].f["static_version"].f["value"].s]

\* the messages C1 expects for a sequence of value strings
ExpectedMessages(values) ==
    LET flagged == SelectSeq(values, LAMBDA v : Len(v) <= 20)
    IN  [k \in 1..Len(flagged) |->
            "Secret " \o flagged[k] \o " is too short: "
                \o ToString(Len(flagged[k])) \o " characters"]

\* C1: when check_secrets has returned on a file whose records all carry a
\* string value, its messages are exactly, in order, one
\* "Secret <value> is too short: <length> characters" per record whose value
\* has length <= 20 (20 flagged, 21 not), so their number is the number of
\* such records.
C1_OneMessagePerShortSecret ==
    (cmd \in CheckPrograms /\ pc = "done" /\ scanner # NoScanner
        /\ FileHasStringValues)
    => /\ outcome = Returned
       /\ messages = ExpectedMessages(FileValues)
       /\ Len(messages) = Cardinality({k \in 1..Len(FileValues) : Len(FileValues[k]) <= 20})

\* C1 witness: a value of length 20 was flagged and one of length 21 was not
C1_Witness ==
    /\ cmd = "check" /\ pc = "done" /\ FileHasStringValues
    /\ FileValues = <<"twenty_one_characters", "exactly_twenty_chars">>
    /\ messages = <<"Secret exactly_twenty_chars is too short: 20 characters">>

\* C2 (the claim as stated): the CLI check command always ends with exit
\* code 0 and never with an unhandled exception.
C2_CheckAlwaysExitsZero ==
    (cmd = "cli_check" /\ pc = "done")
    => (exit_code = 0 /\ outcome.status = "returned")

\* no endpoint was unreachable or answered a non-success status in this run
NoEndpointFailed ==
    /\ net.token_requests > 0 => Success(net.token_status)
    /\ net.secrets_requests > 0 => Success(net.secrets_status)

\* C3 (the claim as stated): the CLI fetch command, run with the required
\* variables set and no endpoint failing, invokes the fetcher, exits with
\* code 0 and leaves the fetched document in the local file.
C3_FetchCommandSucceeds ==
    (cmd = "cli_fetch" /\ pc = "done" /\ ~SomeMissing /\ NoEndpointFailed)
    => /\ exit_code = 0
       /\ net.token_requests = 1 /\ net.secrets_requests = 1
       /\ file.kind = "json" /\ document = file.doc

\* the identity endpoint's answer parsed as JSON and has no access_token
TokenAnswerLacksAccessToken ==
    /\ tok_stdout.kind = "json"
    /\ tok_stdout.doc.t = "object"
    /\ "access_token" \notin DOMAIN tok_stdout.doc.f

\* C4 (the claim as stated): once the token issuer is through with an answer
\* that parses as JSON but has no access_token, it has raised the "no access
\* token" error and returned no token; a token it returns is always the
\* answer's access_token value.
C4_NoAccessTokenIsAnError ==
    /\ (TokenAnswerLacksAccessToken /\ pc # "token_jq")
        => (token = "" /\ outcome.exc = "ValueError")
    /\ token # ""
        => /\ tok_stdout.kind = "json" /\ tok_stdout.doc.t = "object"
           /\ "access_token" \in DOMAIN tok_stdout.doc.f
           /\ tok_stdout.doc.f["access_token"] = JStr(token)

NonSuccess(status) == status # 0 /\ ~Success(status)

\* C5 (the claim as stated): a non-success HTTP status from either endpoint
\* makes fetch_hcp_secrets raise and return no document, and an identity
\* answer with a non-success status never yields a token.
C5_HttpErrorIsFatal ==
    /\ (cmd = "fetch" /\ pc = "done"
            /\ (NonSuccess(net.token_status) \/ NonSuccess(net.secrets_status)))
        => (outcome.status = "raised" /\ document = NoDocument)
    /\ NonSuccess(net.token_status) => token = ""

\* C6: once the constructor has run, if some required variable is absent or
\* empty it raised EnvironmentError with a message that names a variable
\* exactly when that variable is missing; if none is missing the scanner
\* exists and its base_url contains the organization id, the project id and
\* the app name.
C6_ConstructorNamesEveryMissingVariable ==
    (io.env_reads > 0)
    => IF SomeMissing
       THEN /\ outcome.status = "raised" /\ outcome.exc = "EnvironmentError"
            /\ scanner = NoScanner
            /\ \A v \in RequiredSet :
                Contains(outcome.detail, v) <=> (v \notin DOMAIN env \/ env[v] = "")
       ELSE /\ scanner # NoScanner
            /\ \A v \in RequiredSet : Contains(scanner.base_url, env[v])

\* C6 witness: two variables missing, one absent and one empty, both named
C6_Witness ==
    /\ pc = "done"
    /\ DOMAIN env = {"HCP_ORGANIZATION_ID", "HCP_APP_NAME"}
    /\ env["HCP_APP_NAME"] = "" /\ env["HCP_ORGANIZATION_ID"] # ""
    /\ outcome.detail =
        "Missing required environment variables: HCP_PROJECT_ID, HCP_APP_NAME"

\* C7: in a run whose environment lacks a required variable no token
\* request, no secrets request, no file write and no key-value request ever
\* happens: the run never gets past the constructor, and once the constructor
\* has run the run has ended with the configuration error.
C7_ConfigErrorBeforeNetwork ==
    SomeMissing
    => /\ net = NoNet /\ kv.requests = 0 /\ file = file_before
       /\ pc \in {"idle", "callback", "construct", "kv_init", "done"}
       /\ io.env_reads > 0 => (pc = "done" /\ outcome.exc = "EnvironmentError")

\* C7 witness: a fetch run ended on the configuration error, nothing sent
C7_Witness ==
    /\ cmd = "fetch" /\ pc = "done" /\ SomeMissing
    /\ outcome.exc = "EnvironmentError" /\ net = NoNet

\* the file is absent, unreadable, not JSON, or a JSON object whose `secrets`
\* array is empty or missing
FileYieldsNothing ==
    \/ file.kind \in {"missing", "unreadable", "invalid", "empty"}
    \/ /\ file.kind = "json" /\ file.doc.t = "object"
       /\ \/ "secrets" \notin DOMAIN file.doc.f
          \/ file.doc.f["secrets"] = JArr(<<>>)

\* C8: check_secrets on a missing file, an unreadable file, a file that is
\* not valid JSON, or a document with an empty or absent `secrets` array
\* raises nothing and returns the empty list.
C8_BadFileYieldsEmptyList ==
    (cmd \in CheckPrograms /\ scanner # NoScanner /\ FileYieldsNothing)
    => /\ outcome.status # "raised"
       /\ messages = <<>>
       /\ pc \in {"get_values", "loop", "done"}
       /\ pc = "done" => outcome = Returned

\* C8 witness: check_secrets returned on a file that could not be read
C8_Witness ==
    /\ cmd = "check" /\ pc = "done" /\ file.kind = "unreadable"
    /\ outcome = Returned /\ messages = <<>>

\* C9 (the claim as stated): when the secrets endpoint's body is not valid
\* JSON, fetch_hcp_secrets raises an exception of another type than the one
\* it raises when curl fails on the network.
C9_InvalidJsonIsDistinctError ==
    (cmd = "fetch" /\ pc = "done" /\ result_stdout.kind \in {"invalid", "empty"})
    => (outcome.status = "raised" /\ outcome.exc # CurlFailure.exc)

\* fetch_hcp_secrets has returned
FetchReturned == cmd = "fetch" /\ pc = "done" /\ outcome = Returned

FileIsShaped ==
    file.kind = "json" /\ file.doc \in ShapedDocs /\ "secrets" \in DOMAIN file.doc.f

\* the positions of the file's records without `static_version` or `value`
RecordsWithoutValue ==
    {k \in 1..Len(file.doc.f["secrets"].a) :
        LET rec == file.doc.f["secrets"].a[k]
        IN  \/ "static_version" \notin DOMAIN rec.f
            \/ "value" \notin DOMAIN rec.f["static_version"].f}

\* how often `m` occurs in the returned messages
Occurrences(m) == Cardinality({k \in 1..Len(messages) : messages[k] = m})

\* C11 (the claim as stated): every record without `static_version` or
\* without its `value` is reported as
\* "Secret No value found is too short: 15 characters".
C11_DefaultReportedWith15 ==
    (cmd \in CheckPrograms /\ pc = "done" /\ scanner # NoScanner /\ FileIsShaped)
    => /\ outcome = Returned
       /\ Occurrences("Secret No value found is too short: 15 characters")
            = Cardinality(RecordsWithoutValue)

\* C11 amended: every record without `static_version` or without its
\* `value` has the literal "No value found" as its value, whose length is
\* 14, so it is always flagged and reported as
\* "Secret No value found is too short: 14 characters".
C11_DefaultReportedWith14 ==
    (cmd \in CheckPrograms /\ pc = "done" /\ scanner # NoScanner /\ FileIsShaped)
    => /\ outcome = Returned
       /\ Occurrences("Secret No value found is too short: 14 characters")
            = Cardinality(RecordsWithoutValue)
       /\ \A k \in RecordsWithoutValue : secrets[k] = JStr("No value found")

\* C11 witness: one record lacks `static_version`, one lacks `value`, and
\* both were reported
C11_Witness ==
    /\ cmd = "check" /\ pc = "done"
    /\ file.kind = "json"
    /\ file.doc = SecretsDocument(<<JObj(NoFields), JObj("static_version" :> JObj(NoFields))>>)
    /\ messages = <<"Secret No value found is too short: 14 characters",
                    "Secret No value found is too short: 14 characters">>

\* C12: a command line with --version never gets past the app callback: no
\* SecretsScanner is constructed, the environment and the file are not
\* read, nothing is requested or written, and it ends with exit code 0
\* having printed "<app_name> v<version>" and nothing else, whatever the
\* subcommand and the environment.
C12_VersionShortCircuits ==
    cmd \in VersionPrograms
    => /\ pc \in {"callback", "done"}
       /\ scanner = NoScanner /\ net = NoNet /\ io = NoIo /\ kv = NoKv
       /\ file = file_before
       /\ pc = "done"
            => /\ outcome = Exited /\ exit_code = 0
               /\ stdout = <<"hcvss v0.1.0">>

\* C12 witness: --version given together with fetch while required
\* variables are missing; the command printed the version and exited 0
C12_Witness ==
    /\ cmd = "cli_version_fetch" /\ pc = "done" /\ SomeMissing
    /\ exit_code = 0 /\ stdout = <<"hcvss v0.1.0">>

\* C13 (the claim as stated): a key-value operation that got a JSON answer
\* has sent exactly one request to a url under base_url built from the mount
\* and secret paths, with X-Vault-Token equal to the client's token (the
\* constructor argument when non-empty, else VAULT_TOKEN), and has returned
\* the parsed body.
C13_KvOperationReturnsBody ==
    (cmd = "kv" /\ pc = "done" /\ kv.op # "" /\ kv.body.kind = "json")
    => /\ kv.requests = 1
       /\ SubSeq(kv.url, 1, Len(scanner.base_url) + Len(MOUNT) + 2)
            = scanner.base_url \o "/" \o MOUNT \o "/"
       /\ kv.header = (IF kv.arg # "" THEN kv.arg
                       ELSE IF "VAULT_TOKEN" \in DOMAIN env THEN env["VAULT_TOKEN"]
                       ELSE "None")
       /\ outcome = Returned
       /\ kv.result = kv.body.doc

\* C14: over any sequence of runs the token requests sent equal the
\* fetch_hcp_secrets invocations that have passed their token step, one per
\* invocation; an invocation starts without a token and sends its one token
\* request before its secrets GET.
C14_OneTokenRequestPerFetch ==
    /\ total.token_requests = total.fetches - (IF pc = "token_curl" THEN 1 ELSE 0)
    /\ net.token_requests <= 1
    /\ pc = "token_curl" => (token = "" /\ net.token_requests = 0)
    /\ pc = "secrets_curl" => (net.token_requests = 1 /\ net.secrets_requests = 0)
    /\ net.secrets_requests > 0 => net.token_requests = 1

\* C14 witness: the second fetch in a row has sent the second token request
\* and then its secrets GET
C14_Witness ==
    /\ cmd = "fetch" /\ runs = 1
    /\ total.fetches = 2 /\ total.token_requests = 2
    /\ net.token_requests = 1 /\ net.secrets_requests = 1

\* the token issuer is through with the identity endpoint's answer
TokenStepDone == net.token_requests > 0 /\ pc # "token_jq"

\* the identity endpoint was unreachable, or its answer was not JSON, or it
\* was JSON without an access token
TokenIssuanceShouldFail ==
    \/ net.token_status = 0
    \/ tok_stdout.kind \in {"invalid", "empty"}
    \/ TokenAnswerLacksAccessToken

\* C15 (the claim as stated): in a fetch the secrets GET comes only after
\* the token issuer returned a token, the file write only after the GET and
\* the return only after the write; and when the identity endpoint is
\* unreachable or answers malformed JSON or JSON without an access token,
\* the fetch has aborted with no secrets GET and no write to the file.
C15_FetchStepsInOrder ==
    cmd = "fetch"
    => /\ net.secrets_requests > 0 => (token # "" /\ net.token_requests = 1)
       /\ net.file_writes > 0 => net.secrets_requests = 1
       /\ outcome = Returned => net.file_writes = 1
       /\ (TokenStepDone /\ TokenIssuanceShouldFail)
            => /\ pc = "done" /\ outcome.status = "raised"
               /\ net.secrets_requests = 0 /\ net.file_writes = 0
               /\ file = file_before

\* the value check_secrets sees for a record of a shaped document
RecordValue(rec) ==
    IF "static_version" \in DOMAIN rec.f /\ "value" \in DOMAIN rec.f["static_version"].f
    THEN rec.f["static_version"].f["value"].s
    ELSE "No value found"

\* the values of the first n records of the file, in file order
FirstValues(n) == [k \in 1..n |-> RecordValue(file.doc.f["secrets"].a[k])]

\* the lines _get_secret_values prints about a file it cannot use
IsDiagnostic(line) ==
    \/ SubSeq(line, 1, 6) = "Error:"
    \/ SubSeq(line, 1, 29) = "An unexpected error occurred:"

\* C16: at every iteration boundary of check_secrets, apart from the one
\* diagnostic line _get_secret_values prints for a file it cannot use, the
\* lines printed so far are exactly the messages recorded so far; on a shaped
\* document these are the messages of the records handled so far, in the
\* order of the records in the file.
C16_StdoutMirrorsMessages ==
    (cmd \in CheckPrograms /\ pc \in {"loop", "done"} /\ scanner # NoScanner)
    => /\ SelectSeq(stdout, LAMBDA line : ~IsDiagnostic(line)) = messages
       /\ Len(stdout) - Len(messages) <= 1
       /\ FileIsShaped
            => /\ stdout = messages
               /\ messages = ExpectedMessages(FirstValues(idx - 1))

\* C16 witness: in the middle of the loop, the first of two short secrets
\* has been printed and recorded, the second not yet
C16_Witness ==
    /\ cmd = "check" /\ pc = "loop" /\ idx = 2
    /\ FileIsShaped
    /\ Len(file.doc.f["secrets"].a) = 2
    /\ FirstValues(2) = <<"exactly_twenty_chars", "short">>
    /\ stdout = <<"Secret exactly_twenty_chars is too short: 20 characters">>
    /\ messages = stdout

\* C17 (the claim as stated): a fetch_hcp_secrets invocation that ends in an
\* error has left test_secrets.json as it was when the invocation began.
C17_FailedFetchLeavesFile ==
    (cmd = "fetch" /\ pc = "done" /\ outcome.status = "raised")
    => file = file_before

\* C18 (the claim as stated): on a file that holds valid JSON of any shape
\* check_secrets raises nothing and returns a list.
C18_AnyJsonShapeReturnsList ==
    (cmd \in CheckPrograms /\ scanner # NoScanner /\ file.kind = "json")
    => /\ outcome.status # "raised"
       /\ pc = "done" => outcome = Returned

====
